---- MODULE Spec2Model ----
(***************************************************************************)
(* wmsproxy: an XYZ tile front end for a WMS radar service.                *)
(*                                                                         *)
(* The module models the cache + overlay build of the proxy (the second    *)
(* program of src/main.go, lines 130-358): the tile handler, the frames    *)
(* handler, the timestamp cache and the compositing of the two layers.     *)
(* Strings that the code parses (the URL path, the capabilities dimension  *)
(* text) are sequences of one-character strings, so that Split, TrimSuffix *)
(* and Atoi are computed as the Go library computes them.                  *)
(*                                                                         *)
(* Three specifications share the handlers' steps:                         *)
(*   Spec            requests served one after the other by one worker;    *)
(*   PyramidSpec     tile requests over the zoom levels 0..22;             *)
(*   ConcurrentSpec  two /frames requests served at the same time.         *)
(***************************************************************************)
EXTENDS Integers, Sequences, FiniteSets, TLC

\* ------------------------------------------------------------------ bounds

\* The wall clock reads 0..MaxTime (minutes).
MaxTime == 7

\* The longest timestamp list the upstream capabilities document carries.
MaxFrames == 13

\* The upstream list is a window of the frame alphabet starting at 1..MaxShift.
MaxShift == 2

\* ------------------------------------------------------- program constants

\* const TILE_SIZE = 256
TILE_SIZE == 256

\* const CACHE_DURATION = 5 * time.Minute, in minutes
CACHE_DURATION == 5

\* frameCount := 12
FRAME_COUNT == 12

\* http.StatusOK, http.StatusBadRequest, http.StatusInternalServerError
StatusOK == 200
StatusBadRequest == 400
StatusInternalServerError == 500

\* ----------------------------------------------------------------- strings

\* The empty Go string, as a sequence of characters.
EmptyStr == << >>

Digits == {"0", "1", "2", "3", "4", "5", "6", "7", "8", "9"}

DigitVal ==
  "0" :> 0 @@ "1" :> 1 @@ "2" :> 2 @@ "3" :> 3 @@ "4" :> 4 @@
  "5" :> 5 @@ "6" :> 6 @@ "7" :> 7 @@ "8" :> 8 @@ "9" :> 9

\* strings.Split(s, sep) for a one-character separator: the fields between
\* the separators, so that a string without separator (the empty string
\* too) is one field.
RECURSIVE Split(_, _)
Split(s, sep) ==
  IF \A i \in 1..Len(s) : s[i] # sep
    THEN << s >>
    ELSE LET i == CHOOSE k \in 1..Len(s) :
                    s[k] = sep /\ \A j \in 1..(k - 1) : s[j] # sep
         IN  << SubSeq(s, 1, i - 1) >> \o Split(SubSeq(s, i + 1, Len(s)), sep)

\* strings.HasSuffix
HasSuffix(s, suffix) ==
  /\ Len(s) >= Len(suffix)
  /\ SubSeq(s, Len(s) - Len(suffix) + 1, Len(s)) = suffix

\* strings.TrimSuffix: s without the suffix, or s itself.
TrimSuffix(s, suffix) ==
  IF HasSuffix(s, suffix) THEN SubSeq(s, 1, Len(s) - Len(suffix)) ELSE s

\* The value of a sequence of decimal digits.
RECURSIVE DecimalValue(_)
DecimalValue(ds) ==
  IF ds = << >> THEN 0
  ELSE DecimalValue(SubSeq(ds, 1, Len(ds) - 1)) * 10 + DigitVal[ds[Len(ds)]]

\* strconv.Atoi: an optional sign and at least one digit; on a syntax
\* error the value is 0.
Atoi(s) ==
  LET signed == Len(s) > 0 /\ s[1] \in {"-", "+"}
      ds     == IF signed THEN SubSeq(s, 2, Len(s)) ELSE s
      ok     == Len(ds) > 0 /\ \A i \in 1..Len(ds) : ds[i] \in Digits
  IN  IF ~ok THEN [val |-> 0, err |-> TRUE]
      ELSE [val |-> IF signed /\ s[1] = "-" THEN 0 - DecimalValue(ds)
                    ELSE DecimalValue(ds),
            err |-> FALSE]

\* strconv.ParseBool: the accepted spellings; anything else is an error
\* and false.
ParseBool(str) ==
  IF str \in {"1", "t", "T", "TRUE", "true", "True"}
    THEN [val |-> TRUE, err |-> FALSE]
  ELSE IF str \in {"0", "f", "F", "FALSE", "false", "False"}
    THEN [val |-> FALSE, err |-> FALSE]
  ELSE [val |-> FALSE, err |-> TRUE]

\* ----------------------------------------------------------- configuration

\* type WMSInfo; the zero value is what a failed map lookup yields.
ZeroWMSInfo == [URL |-> "", LayerName |-> ""]

\* var radarLayers = map[string]WMSInfo{...}
radarLayers ==
  "conus"  :> [URL |-> "https://opengeo.ncep.noaa.gov/geoserver/conus/conus_bref_qcd/ows",
               LayerName |-> "conus_bref_qcd"] @@
  "alaska" :> [URL |-> "https://opengeo.ncep.noaa.gov/geoserver/alaska/alaska_bref_qcd/ows",
               LayerName |-> "alaska_bref_qcd"] @@
  "hawaii" :> [URL |-> "https://opengeo.ncep.noaa.gov/geoserver/hawaii/hawaii_bref_qcd/ows",
               LayerName |-> "hawaii_bref_qcd"] @@
  "carib"  :> [URL |-> "https://opengeo.ncep.noaa.gov/geoserver/carib/carib_bref_qcd/ows",
               LayerName |-> "carib_bref_qcd"] @@
  "guam"   :> [URL |-> "https://opengeo.ncep.noaa.gov/geoserver/guam/guam_bref_qcd/ows",
               LayerName |-> "guam_bref_qcd"]

\* The lookup with a fallback: an area that is not configured is served
\* with the configuration of conus.
LookupLayer_Fallback(area) ==
  IF area \in DOMAIN radarLayers
    THEN [info |-> radarLayers[area], ok |-> TRUE]
    ELSE [info |-> radarLayers["conus"], ok |-> TRUE]

\* radarLayers[area] as Go evaluates it: the entry and whether it exists.
LookupLayer(area) ==
  IF area \in DOMAIN radarLayers
    THEN [info |-> radarLayers[area], ok |-> TRUE]
    ELSE [info |-> ZeroWMSInfo, ok |-> FALSE]

\* var hazardsLayer
hazardsLayer ==
  [URL |-> "https://opengeo.ncep.noaa.gov/geoserver/wwa/hazards/ows",
   LayerName |-> "hazards"]

\* ---------------------------------------------------------------- geometry

\* 2 * math.Pi * 6378137, in whole metres.
WorldExtent == 40075016

\* 20037508.3427892, the projection's origin, in whole metres.
OriginShift == 20037508

\* math.Pow(2, zoom) for zoom >= 0.
RECURSIVE Pow2(_)
Pow2(n) == IF n <= 0 THEN 1 ELSE 2 * Pow2(n - 1)

\* resolution * TILE_SIZE: the side of one tile, in whole metres. Beyond
\* zoom 26 the side is below one metre.
TileSpan(zoom) ==
  IF zoom < 0 THEN WorldExtent * Pow2(0 - zoom)
  ELSE IF zoom > 26 THEN 0
  ELSE WorldExtent \div Pow2(zoom)

\* The box with the y axis taken as growing downwards, as the tile rows do:
\* minY := maxY + resolution*TILE_SIZE.
tileToBoundingBox_RowsDown(x, y, zoom) ==
  LET minX == (0 - OriginShift) + x * TileSpan(zoom)
      maxY == OriginShift - y * TileSpan(zoom)
      maxX == minX + TileSpan(zoom)
      minY == maxY + TileSpan(zoom)
  IN  << minX, minY, maxX, maxY >>

\* tileToBoundingBox: <<minX, minY, maxX, maxY>>, the four numbers the
\* bbox string carries.
tileToBoundingBox(x, y, zoom) ==
  LET minX == (0 - OriginShift) + x * TileSpan(zoom)
      maxY == OriginShift - y * TileSpan(zoom)
      maxX == minX + TileSpan(zoom)
      minY == maxY - TileSpan(zoom)
  IN  << minX, minY, maxX, maxY >>

\* ------------------------------------------------------------------ images

\* A pixel is one colour channel R and the alpha channel A, 8 bits each
\* (G and B are computed as R is). An image is its colour model and its
\* pixels; its bounds are the pixel count.
\*   "NRGBA": image.NRGBA, colour not premultiplied by alpha
\*   "RGBA" : image.RGBA, colour premultiplied by alpha

\* image.Decode of a response body: a PNG with an alpha channel (colour
\* type TCA8) decodes to image.NRGBA, a PNG without (TC8) to image.RGBA
\* with alpha 255; anything else is an error.
Decode(body) ==
  IF ~body.png THEN [img |-> [model |-> "none", pix |-> << >>], err |-> TRUE]
  ELSE IF body.cb = "TCA8"
    THEN [img |-> [model |-> "NRGBA", pix |-> body.data], err |-> FALSE]
  ELSE [img |-> [model |-> "RGBA",
                 pix |-> [i \in 1..Len(body.data) |->
                            [R |-> body.data[i].R, A |-> 255]]],
        err |-> FALSE]

\* color.Color.RGBA(): the 16-bit alpha-premultiplied value of a pixel.
RGBA16(model, px) ==
  IF model = "NRGBA"
    THEN [r |-> ((px.R * 257) * px.A) \div 255, a |-> px.A * 257]
    ELSE [r |-> px.R * 257, a |-> px.A * 257]

\* The source pixel of a draw as 16-bit premultiplied colour, as
\* drawNRGBASrc/drawNRGBAOver and drawCopySrc/drawRGBA compute it.
SourceValue(model, px) ==
  IF model = "NRGBA"
    THEN [r |-> (px.R * (px.A * 257)) \div 255, a |-> px.A * 257]
    ELSE [r |-> px.R * 257, a |-> px.A * 257]

\* image.NewRGBA(bounds): n zero pixels.
NewRGBA(n) == [model |-> "RGBA", pix |-> [i \in 1..n |-> [R |-> 0, A |-> 0]]]

\* One destination pixel of draw.Draw(dst, r, src, sp, draw.Src): the
\* source in 8-bit premultiplied form.
SrcPixel(model, s) ==
  LET v == SourceValue(model, s)
  IN  [R |-> v.r \div 256, A |-> v.a \div 256]

\* One destination pixel of draw.Draw(dst, r, src, sp, draw.Over):
\*   a := (m - sa) * 0x101;  d = uint8((d*a/m + s) >> 8),  m = 0xffff.
\* d*a/m is computed as d*(m - sa)/255, the same quotient (0x101 divides
\* m), which stays below 2^31.
OverPixel(d, model, s) ==
  LET v == SourceValue(model, s)
  IN  [R |-> ((d.R * (65535 - v.a)) \div 255 + v.r) \div 256,
       A |-> ((d.A * (65535 - v.a)) \div 255 + v.a) \div 256]

\* draw.Draw(dst, dst.Bounds(), src, image.Point{}, draw.Src): the pixels
\* inside both bounds are replaced.
DrawSrc(dst, src) ==
  [dst EXCEPT !.pix = [i \in 1..Len(dst.pix) |->
     IF i <= Len(src.pix) THEN SrcPixel(src.model, src.pix[i]) ELSE dst.pix[i]]]

\* draw.Draw(dst, dst.Bounds(), src, image.Point{}, draw.Over)
DrawOver(dst, src) ==
  [dst EXCEPT !.pix = [i \in 1..Len(dst.pix) |->
     IF i <= Len(src.pix) THEN OverPixel(dst.pix[i], src.model, src.pix[i])
     ELSE dst.pix[i]]]

\* The composite block of tileHandler: a fresh RGBA buffer of the radar
\* image's bounds, the radar image drawn with Src, the alerts image with
\* Over.
Composite(radarImg, alertsImg) ==
  DrawOver(DrawSrc(NewRGBA(Len(radarImg.pix)), radarImg), alertsImg)

\* image.Opaque: every alpha is 255.
Opaque(img) == \A i \in 1..Len(img.pix) : img.pix[i].A = 255

\* color.NRGBAModel.Convert of a pixel of an image.RGBA:
\*   r = (r16 * 0xffff) / a16, then r >> 8,
\* with r16 = R * 0x101 and a16 = A * 0x101, so that the quotient is
\* (R * 0xffff) / A.
ToNRGBA(px) ==
  IF px.A = 255 THEN px
  ELSE IF px.A = 0 THEN [R |-> 0, A |-> 0]
  ELSE [R |-> ((px.R * 65535) \div px.A) \div 256, A |-> px.A]

\* png.Encode: an opaque image is written without alpha channel (TC8),
\* any other with one (TCA8), its samples not premultiplied.
PngEncode(img) ==
  IF Opaque(img)
    THEN [png |-> TRUE, cb |-> "TC8",
          data |-> [i \in 1..Len(img.pix) |-> [R |-> img.pix[i].R, A |-> 255]]]
  ELSE IF img.model = "NRGBA"
    THEN [png |-> TRUE, cb |-> "TCA8", data |-> img.pix]
  ELSE [png |-> TRUE, cb |-> "TCA8",
        data |-> [i \in 1..Len(img.pix) |-> ToNRGBA(img.pix[i])]]

\* ---------------------------------------------------------------- requests

\* The URL paths of the tile requests. The mux routes every path with the
\* prefix /tiles/ to tileHandler.
\* /tiles/8/79/98.png: the example of the README
PathExample ==
  << "/", "t", "i", "l", "e", "s", "/", "8", "/", "7", "9", "/", "9", "8", ".", "p", "n", "g" >>

\* /tiles/22/0/0.png: the deepest zoom of the range
PathZoom22 ==
  << "/", "t", "i", "l", "e", "s", "/", "2", "2", "/", "0", "/", "0", ".", "p", "n", "g" >>

\* /tiles/23/0/0.png: one past the range
PathZoom23 ==
  << "/", "t", "i", "l", "e", "s", "/", "2", "3", "/", "0", "/", "0", ".", "p", "n", "g" >>

\* /tiles/99/0/0.png: far past the range
PathZoom99 ==
  << "/", "t", "i", "l", "e", "s", "/", "9", "9", "/", "0", "/", "0", ".", "p", "n", "g" >>

\* /tiles/-1/0/0.png: a negative zoom
PathZoomNeg ==
  << "/", "t", "i", "l", "e", "s", "/", "-", "1", "/", "0", "/", "0", ".", "p", "n", "g" >>

\* /tiles/8/79/98: no .png suffix
PathNoSuffix ==
  << "/", "t", "i", "l", "e", "s", "/", "8", "/", "7", "9", "/", "9", "8" >>

\* /tiles/a/0/0.png: a zoom that is no integer
PathNotInt ==
  << "/", "t", "i", "l", "e", "s", "/", "a", "/", "0", "/", "0", ".", "p", "n", "g" >>

\* /tiles/8/79: four segments
PathShort ==
  << "/", "t", "i", "l", "e", "s", "/", "8", "/", "7", "9" >>

\* /tiles/8/7/9/0.png: six segments
PathLong ==
  << "/", "t", "i", "l", "e", "s", "/", "8", "/", "7", "/", "9", "/", "0", ".", "p", "n", "g" >>

TilePaths ==
  {PathExample, PathZoom22, PathZoom23, PathZoom99, PathZoomNeg,
   PathNoSuffix, PathNotInt, PathShort, PathLong}

\* The literal suffix ".png".
DotPng == << ".", "p", "n", "g" >>

\* The values of the area, alerts and time query parameters ("" when the
\* parameter is absent). A time value is a sequence of characters, as the
\* timestamps of the capabilities document are.
AreaParams == {"", "conus", "CONUS", "mars"}

AlertsParams == {"", "true"}

TimeParams == {EmptyStr, << "z" >>}

\* The tile requests: the example path with every combination of the
\* query parameters, and every path with and without a time.
TileRequests ==
  [handler : {"tiles"}, path : {PathExample}, area : AreaParams,
   alerts : AlertsParams, time : TimeParams]
    \cup [handler : {"tiles"}, path : TilePaths, area : {""},
          alerts : {""}, time : TimeParams]

FrameRequests ==
  [handler : {"frames"}, path : {EmptyStr}, area : AreaParams,
   alerts : {""}, time : {EmptyStr}]

NoRequest ==
  [handler |-> "", path |-> EmptyStr, area |-> "", alerts |-> "", time |-> EmptyStr]

\* ---------------------------------------------------------------- upstream

\* The timestamps the upstream publishes, oldest first, one character each.
FrameNames ==
  << "a", "b", "c", "d", "e", "f", "g", "h", "i", "j",
     "k", "l", "m", "n", "o", "p", "q", "r" >>

\* The dimension text of n timestamps starting at the lo-th: the
\* timestamps separated by commas.
RECURSIVE DimensionText(_, _)
DimensionText(lo, n) ==
  IF n = 0 THEN EmptyStr
  ELSE IF n = 1 THEN << FrameNames[lo] >>
  ELSE << FrameNames[lo], "," >> \o DimensionText(lo + 1, n - 1)

\* The lengths of the upstream lists: none, one, exactly the frame count
\* and more than it.
CapsLengths == {0, 1, FRAME_COUNT, MaxFrames}

\* A capabilities body: whether it is well-formed XML, and the Dimension
\* elements found at Capability/Layer/Layer (none or one). The timestamps
\* of the document are a window of the frame names that starts at lo; the
\* window moves on as the radar scans arrive, and never back.
CapabilitiesBodies(lo) ==
  {[xml |-> FALSE, dimension |-> << >>], [xml |-> TRUE, dimension |-> << >>]}
    \cup {[xml |-> TRUE, dimension |-> << DimensionText(lo, n) >>] :
            n \in CapsLengths}

\* What client.Get returns for a GetCapabilities request while the
\* upstream window starts at lo: a transport error or a response of some
\* status.
CapabilitiesResponses(lo) ==
  {[kind |-> "error"]}
    \cup {[kind |-> "http", status |-> StatusOK, body |-> b] : b \in CapabilitiesBodies(lo)}
    \cup {[kind |-> "http", status |-> StatusInternalServerError,
           body |-> [xml |-> TRUE, dimension |-> << >>]]}

\* The bodies of the GetMap responses: PNG files of one pixel row, or
\* something that is no image.
TileBodies ==
  {[png |-> FALSE],
   [png |-> TRUE, cb |-> "TCA8", data |-> << [R |-> 100, A |-> 100] >>],
   [png |-> TRUE, cb |-> "TCA8", data |-> << [R |-> 255, A |-> 0] >>],
   [png |-> TRUE, cb |-> "TC8",  data |-> << [R |-> 200, A |-> 255] >>]}

\* What client.Get returns for a GetMap request.
TileResponses ==
  {[kind |-> "error"]}
    \cup {[kind |-> "http", status |-> StatusOK, body |-> b] : b \in TileBodies}
    \cup {[kind |-> "http", status |-> StatusInternalServerError, body |-> [png |-> FALSE]]}

\* A request sent and not yet answered.
Pending == [kind |-> "pending"]

\* ------------------------------------------------------------------ errors

\* A Go error value; NoError is nil.
NoError == [msg |-> "", code |-> 0]

ErrTransport == [msg |-> "Get: transport error", code |-> 0]

ErrUnsupportedScheme == [msg |-> "Get: unsupported protocol scheme", code |-> 0]

ErrXML == [msg |-> "XML syntax error", code |-> 0]

ErrUnknownFormat == [msg |-> "image: unknown format", code |-> 0]

ErrInvalidArea == [msg |-> "invalid area", code |-> 0]

ErrStatus(code) == [msg |-> "WMS server returned status", code |-> code]

\* ------------------------------------------------------------------- state

Workers == {"w1", "w2"}

NoWorker == "none"

VARIABLES
  now,         \* the latest reading of time.Now(), in minutes
  cache,       \* var cache map[string]CacheEntry: a function on its keys
  cacheMutex,  \* var cacheMutex: the workers holding RLock, the one holding Lock
  pc,          \* where each worker's handler stands
  req,         \* the request each worker serves
  loc,         \* the local variables of each worker's handler
  resp,        \* what each worker has written to its http.ResponseWriter
  calls,       \* the upstream exchanges of each worker's request, in order
  upstream     \* where the window of timestamps the upstream publishes starts

vars == << now, cache, cacheMutex, pc, req, loc, resp, calls, upstream >>

\* The zero CacheEntry, which a failed map lookup yields.
ZeroEntry == [Timestamps |-> << >>, Expiry |-> 0]

NoImage == [model |-> "none", pix |-> << >>]

NoResponse == [status |-> 0, ctype |-> "", body |-> [kind |-> "none"]]

ZeroLocals ==
  [zoom |-> 0, x |-> 0, y |-> 0, area |-> "", showAlerts |-> FALSE,
   timestamp |-> EmptyStr, bbox |-> << 0, 0, 0, 0 >>, radarImg |-> NoImage,
   caller |-> "", entry |-> ZeroEntry, found |-> FALSE, fresh |-> FALSE,
   timestamps |-> << >>, recentTimestamps |-> << >>,
   ret |-> [timestamps |-> << >>, err |-> NoError]]

Init ==
  /\ now = 0
  /\ cache = << >>
  /\ cacheMutex = [readers |-> {}, writer |-> NoWorker]
  /\ pc = [p \in Workers |-> "idle"]
  /\ req = [p \in Workers |-> NoRequest]
  /\ loc = [p \in Workers |-> ZeroLocals]
  /\ resp = [p \in Workers |-> NoResponse]
  /\ calls = [p \in Workers |-> << >>]
  /\ upstream = 1

\* ------------------------------------------------------- response writing

\* http.Error(w, msg, code)
HttpError(msg, code) ==
  [status |-> code, ctype |-> "text/plain; charset=utf-8",
   body |-> [kind |-> "text", text |-> msg]]

\* w.Header().Set("Content-Type", "image/png"); png.Encode(w, radarImg)
PngResponse(img) ==
  [status |-> StatusOK, ctype |-> "image/png",
   body |-> [kind |-> "png", png |-> PngEncode(img)]]

\* w.Header().Set("Content-Type", "application/json");
\* json.NewEncoder(w).Encode(timestamps)
JsonResponse(timestamps) ==
  [status |-> StatusOK, ctype |-> "application/json",
   body |-> [kind |-> "json", json |-> timestamps]]

\* --------------------------------------------------------- upstream calls

\* The GetCapabilities request of getTimestamps.
CapabilitiesRequest(wmsInfo) ==
  [request |-> "GetCapabilities", url |-> wmsInfo.URL, layers |-> "",
   width |-> 0, height |-> 0, bbox |-> << >>, time |-> EmptyStr,
   response |-> Pending]

\* The GetMap request of fetchWmsTile; TIME is sent only when time is not
\* empty (an absent TIME is the empty string here).
GetMapRequest(wms, bbox, time) ==
  [request |-> "GetMap", url |-> wms.URL, layers |-> wms.LayerName,
   width |-> TILE_SIZE, height |-> TILE_SIZE, bbox |-> bbox, time |-> time,
   response |-> Pending]

\* client.Get fails before anything is sent when the URL has no scheme,
\* as the URL built from the zero WMSInfo has.
Sendable(wms) == wms.URL # ""

\* The log with the answer to its last request filled in.
Answered(log, r) == [log EXCEPT ![Len(log)].response = r]

\* fetchWmsTile with the error of image.Decode dropped.
fetchWmsTile_DecodeErrorDropped(r) ==
  IF r.kind = "error" THEN [img |-> NoImage, err |-> ErrTransport]
  ELSE IF r.status # StatusOK THEN [img |-> NoImage, err |-> ErrStatus(r.status)]
  ELSE [img |-> Decode(r.body).img, err |-> NoError]

\* fetchWmsTile once client.Get has returned r: a transport error, a
\* status other than 200 and a body that does not decode are errors.
fetchWmsTile(r) ==
  IF r.kind = "error" THEN [img |-> NoImage, err |-> ErrTransport]
  ELSE IF r.status # StatusOK THEN [img |-> NoImage, err |-> ErrStatus(r.status)]
  ELSE LET d == Decode(r.body)
       IN  IF d.err THEN [img |-> NoImage, err |-> ErrUnknownFormat]
           ELSE [img |-> d.img, err |-> NoError]

\* xml.Unmarshal(body, &caps): an element that is absent leaves its field
\* at the zero value, without error.
Unmarshal(body) ==
  IF ~body.xml THEN [Text |-> EmptyStr, err |-> TRUE]
  ELSE IF body.dimension = << >> THEN [Text |-> EmptyStr, err |-> FALSE]
  ELSE [Text |-> body.dimension[1], err |-> FALSE]

\* --------------------------------------------------------- getTimestamps

\* What time.Now() may return: the clock never runs backwards, and time
\* passes between any two readings. The clock is read in getTimestamps
\* only, so the time that passes elsewhere shows in the next reading.
TimeNow == now..MaxTime

\* The freshness test with the entry still served at its expiry.
CacheFresh_AtExpiry(entry, found, t) == found /\ t <= entry.Expiry

\* found && time.Now().Before(entry.Expiry)
CacheFresh(entry, found, t) == found /\ t < entry.Expiry

\* The slice taken from the front of the list: timestamps[:frameCount].
RecentTimestamps_Oldest(timestamps) ==
  LET frameCount == IF Len(timestamps) < FRAME_COUNT THEN Len(timestamps)
                    ELSE FRAME_COUNT
  IN  SubSeq(timestamps, 1, frameCount)

\* frameCount := 12; if len(timestamps) < frameCount {...};
\* timestamps[len(timestamps)-frameCount:]
RecentTimestamps(timestamps) ==
  LET frameCount == IF Len(timestamps) < FRAME_COUNT THEN Len(timestamps)
                    ELSE FRAME_COUNT
  IN  SubSeq(timestamps, Len(timestamps) - frameCount + 1, Len(timestamps))

\* CacheEntry{Timestamps: recentTimestamps, Expiry: time.Now().Add(CACHE_DURATION)}
NewCacheEntry(recentTimestamps, t) ==
  [Timestamps |-> recentTimestamps, Expiry |-> t + CACHE_DURATION]

\* cache[area] = entry
MapStore(m, key, entry) ==
  [k \in (DOMAIN m) \cup {key} |-> IF k = key THEN entry ELSE m[k]]

\* The handler step that follows the return of getTimestamps.
ReturnTo(caller) ==
  IF caller = "tileHandler" THEN "tileHandler_timestamp" ELSE "framesHandler_respond"

\* The locals after getTimestamps returns (timestamps, err).
Returned(l, timestamps, err) ==
  [l EXCEPT !.ret = [timestamps |-> timestamps, err |-> err]]

\* cacheMutex.RLock(). (A reader is admitted whenever no writer holds the
\* lock; sync.RWMutex also holds new readers back while a writer waits,
\* which removes interleavings and adds none.)
getTimestamps_RLock(p) ==
  /\ pc[p] = "getTimestamps"
  /\ cacheMutex.writer = NoWorker
  /\ cacheMutex' = [cacheMutex EXCEPT !.readers = @ \cup {p}]
  /\ pc' = [pc EXCEPT ![p] = "getTimestamps_read"]
  /\ UNCHANGED << now, cache, req, loc, resp, calls, upstream >>

\* entry, found := cache[area]; cacheMutex.RUnlock()
getTimestamps_read(p) ==
  /\ pc[p] = "getTimestamps_read"
  /\ LET area  == loc[p].area
         found == area \in DOMAIN cache
         entry == IF found THEN cache[area] ELSE ZeroEntry
     IN  loc' = [loc EXCEPT ![p] = [@ EXCEPT !.entry = entry, !.found = found]]
  /\ cacheMutex' = [cacheMutex EXCEPT !.readers = @ \ {p}]
  /\ pc' = [pc EXCEPT ![p] = "getTimestamps_check"]
  /\ UNCHANGED << now, cache, req, resp, calls, upstream >>

\* The misses of one area folded into one fetch: a call that finds the
\* capabilities request of another call for its area on the way sends none
\* and returns the entry it read.
getTimestamps_check_SingleFlight(p) ==
  /\ pc[p] = "getTimestamps_check"
  /\ \E t \in TimeNow :
     LET l      == loc[p]
         fresh  == CacheFresh(l.entry, l.found, t)
         layer  == LookupLayer(l.area)
         l1     == [l EXCEPT !.fresh = fresh]
         shared == \E q \in Workers \ {p} :
                     /\ pc[q] = "getTimestamps_response"
                     /\ loc[q].area = l.area
     IN  /\ now' = t
         /\ IF fresh \/ (layer.ok /\ shared)
             THEN /\ loc' = [loc EXCEPT ![p] = Returned(l1, l.entry.Timestamps, NoError)]
                  /\ pc' = [pc EXCEPT ![p] = ReturnTo(l.caller)]
                  /\ UNCHANGED calls
           ELSE IF ~layer.ok
             THEN /\ loc' = [loc EXCEPT ![p] = Returned(l1, << >>, ErrInvalidArea)]
                  /\ pc' = [pc EXCEPT ![p] = ReturnTo(l.caller)]
                  /\ UNCHANGED calls
           ELSE /\ loc' = [loc EXCEPT ![p] = l1]
                /\ calls' = [calls EXCEPT ![p] = Append(@, CapabilitiesRequest(layer.info))]
                /\ pc' = [pc EXCEPT ![p] = "getTimestamps_response"]
  /\ UNCHANGED << cache, cacheMutex, req, resp, upstream >>

\* Lines 206-218: the cached timestamps while the entry is fresh; else
\* the area's lookup and the GetCapabilities request.
getTimestamps_check(p) ==
  /\ pc[p] = "getTimestamps_check"
  /\ \E t \in TimeNow :
     LET l     == loc[p]
         fresh == CacheFresh(l.entry, l.found, t)
         layer == LookupLayer(l.area)
         l1    == [l EXCEPT !.fresh = fresh]
     IN  /\ now' = t
         /\ IF fresh
             THEN /\ loc' = [loc EXCEPT ![p] = Returned(l1, l.entry.Timestamps, NoError)]
                  /\ pc' = [pc EXCEPT ![p] = ReturnTo(l.caller)]
                  /\ UNCHANGED calls
           ELSE IF ~layer.ok
             THEN /\ loc' = [loc EXCEPT ![p] = Returned(l1, << >>, ErrInvalidArea)]
                  /\ pc' = [pc EXCEPT ![p] = ReturnTo(l.caller)]
                  /\ UNCHANGED calls
           ELSE /\ loc' = [loc EXCEPT ![p] = l1]
                /\ calls' = [calls EXCEPT ![p] = Append(@, CapabilitiesRequest(layer.info))]
                /\ pc' = [pc EXCEPT ![p] = "getTimestamps_response"]
  /\ UNCHANGED << cache, cacheMutex, req, resp, upstream >>

\* The failure remembered in the cache: after a transport error the entry
\* read is stored again with a new expiry, and the error returned.
getTimestamps_response_ErrorCached(p) ==
  /\ pc[p] = "getTimestamps_response"
  /\ \E lo \in upstream..MaxShift : upstream' = lo /\ \E r \in CapabilitiesResponses(lo) :
       /\ calls' = [calls EXCEPT ![p] = Answered(@, r)]
       /\ IF r.kind = "error"
            THEN /\ loc' = [loc EXCEPT ![p] = Returned(@, << >>, ErrTransport)]
                 /\ pc' = [pc EXCEPT ![p] = ReturnTo(loc[p].caller)]
                 /\ cache' = MapStore(cache, loc[p].area,
                                NewCacheEntry(loc[p].entry.Timestamps, now))
          ELSE IF Unmarshal(r.body).err
            THEN /\ loc' = [loc EXCEPT ![p] = Returned(@, << >>, ErrXML)]
                 /\ pc' = [pc EXCEPT ![p] = ReturnTo(loc[p].caller)]
                 /\ UNCHANGED cache
          ELSE LET timestamps == Split(Unmarshal(r.body).Text, ",")
               IN  /\ loc' = [loc EXCEPT ![p] =
                               [@ EXCEPT !.timestamps = timestamps,
                                         !.recentTimestamps = RecentTimestamps(timestamps)]]
                   /\ pc' = [pc EXCEPT ![p] = "getTimestamps_Lock"]
                   /\ UNCHANGED cache
  /\ UNCHANGED << now, cacheMutex, req, resp >>

\* The capabilities request sent again after a transport error.
getTimestamps_response_Retry(p) ==
  /\ pc[p] = "getTimestamps_response"
  /\ \E lo \in upstream..MaxShift : upstream' = lo /\ \E r \in CapabilitiesResponses(lo) :
       IF r.kind = "error"
         THEN /\ calls' = [calls EXCEPT ![p] =
                   Append(Answered(@, r),
                          CapabilitiesRequest(LookupLayer(loc[p].area).info))]
              /\ UNCHANGED << loc, pc >>
       ELSE IF Unmarshal(r.body).err
         THEN /\ calls' = [calls EXCEPT ![p] = Answered(@, r)]
              /\ loc' = [loc EXCEPT ![p] = Returned(@, << >>, ErrXML)]
              /\ pc' = [pc EXCEPT ![p] = ReturnTo(loc[p].caller)]
       ELSE LET timestamps == Split(Unmarshal(r.body).Text, ",")
            IN  /\ calls' = [calls EXCEPT ![p] = Answered(@, r)]
                /\ loc' = [loc EXCEPT ![p] =
                     [@ EXCEPT !.timestamps = timestamps,
                               !.recentTimestamps = RecentTimestamps(timestamps)]]
                /\ pc' = [pc EXCEPT ![p] = "getTimestamps_Lock"]
  /\ UNCHANGED << now, cache, cacheMutex, req, resp >>

\* Lines 218-235: client.Get returns; the body is unmarshalled, the
\* dimension text split and its last frameCount entries kept. The status
\* of the response is not looked at.
getTimestamps_response(p) ==
  /\ pc[p] = "getTimestamps_response"
  /\ \E lo \in upstream..MaxShift : upstream' = lo /\ \E r \in CapabilitiesResponses(lo) :
       /\ calls' = [calls EXCEPT ![p] = Answered(@, r)]
       /\ IF r.kind = "error"
            THEN /\ loc' = [loc EXCEPT ![p] = Returned(@, << >>, ErrTransport)]
                 /\ pc' = [pc EXCEPT ![p] = ReturnTo(loc[p].caller)]
          ELSE IF Unmarshal(r.body).err
            THEN /\ loc' = [loc EXCEPT ![p] = Returned(@, << >>, ErrXML)]
                 /\ pc' = [pc EXCEPT ![p] = ReturnTo(loc[p].caller)]
          ELSE LET timestamps == Split(Unmarshal(r.body).Text, ",")
               IN  /\ loc' = [loc EXCEPT ![p] =
                               [@ EXCEPT !.timestamps = timestamps,
                                         !.recentTimestamps = RecentTimestamps(timestamps)]]
                   /\ pc' = [pc EXCEPT ![p] = "getTimestamps_Lock"]
  /\ UNCHANGED << now, cache, cacheMutex, req, resp >>

\* The write section entered as a read section is: without waiting for
\* the readers to leave.
getTimestamps_Lock_Shared(p) ==
  /\ pc[p] = "getTimestamps_Lock"
  /\ cacheMutex.writer = NoWorker
  /\ cacheMutex' = [cacheMutex EXCEPT !.writer = p]
  /\ pc' = [pc EXCEPT ![p] = "getTimestamps_store"]
  /\ UNCHANGED << now, cache, req, loc, resp, calls, upstream >>

\* cacheMutex.Lock()
getTimestamps_Lock(p) ==
  /\ pc[p] = "getTimestamps_Lock"
  /\ cacheMutex.writer = NoWorker
  /\ cacheMutex.readers = {}
  /\ cacheMutex' = [cacheMutex EXCEPT !.writer = p]
  /\ pc' = [pc EXCEPT ![p] = "getTimestamps_store"]
  /\ UNCHANGED << now, cache, req, loc, resp, calls, upstream >>

\* cache[area] = CacheEntry{...}; cacheMutex.Unlock(); return
getTimestamps_store(p) ==
  /\ pc[p] = "getTimestamps_store"
  /\ \E t \in TimeNow :
       /\ now' = t
       /\ cache' = MapStore(cache, loc[p].area, NewCacheEntry(loc[p].recentTimestamps, t))
  /\ cacheMutex' = [cacheMutex EXCEPT !.writer = NoWorker]
  /\ loc' = [loc EXCEPT ![p] = Returned(@, loc[p].recentTimestamps, NoError)]
  /\ pc' = [pc EXCEPT ![p] = ReturnTo(loc[p].caller)]
  /\ UNCHANGED << req, resp, calls, upstream >>

\* ------------------------------------------------------------ tileHandler

\* Lines 306-309: parts := strings.Split(r.URL.Path, "/") and the three
\* conversions, their errors dropped. parts[2], parts[3] and parts[4] (the
\* third to fifth field) are indexed unchecked: with fewer than five
\* fields the handler panics.
ParseTilePath(path) ==
  LET parts == Split(path, "/")
  IN  IF Len(parts) < 5
        THEN [panic |-> TRUE, zoom |-> 0, x |-> 0, y |-> 0]
        ELSE [panic |-> FALSE,
              zoom |-> Atoi(parts[3]).val,
              x |-> Atoi(parts[4]).val,
              y |-> Atoi(TrimSuffix(parts[5], DotPng)).val]

\* area := query.Get("area"); if area == "" { area = "conus" }
AreaOf(param) == IF param = "" THEN "conus" ELSE param

\* A new request reaches a free worker: the mux hands it to its handler.
ServeHTTP(p) ==
  /\ pc[p] = "idle"
  /\ \E r \in TileRequests \cup FrameRequests :
       /\ req' = [req EXCEPT ![p] = r]
       /\ pc' = [pc EXCEPT ![p] =
                   IF r.handler = "tiles" THEN "tileHandler" ELSE "framesHandler"]
  /\ UNCHANGED << now, cache, cacheMutex, loc, resp, calls, upstream >>

\* Lines 306-319: the path, the query parameters, and the call of
\* getTimestamps when no time is given. A panic ends the handler: net/http
\* recovers it and closes the connection without a response.
tileHandler(p) ==
  /\ pc[p] = "tileHandler"
  /\ LET t == ParseTilePath(req[p].path)
     IN  IF t.panic
           THEN /\ pc' = [pc EXCEPT ![p] = "panic"]
                /\ UNCHANGED loc
           ELSE /\ loc' = [loc EXCEPT ![p] =
                     [@ EXCEPT !.zoom = t.zoom, !.x = t.x, !.y = t.y,
                               !.area = AreaOf(req[p].area),
                               !.showAlerts = ParseBool(req[p].alerts).val,
                               !.timestamp = req[p].time,
                               !.caller = "tileHandler"]]
                /\ pc' = [pc EXCEPT ![p] =
                     IF req[p].time = EmptyStr THEN "getTimestamps"
                     ELSE "tileHandler_fetchRadar"]
  /\ UNCHANGED << now, cache, cacheMutex, req, resp, calls, upstream >>

\* The missing timestamp answered as a client error.
TimestampError_BadRequest ==
  HttpError("Could not get latest timestamp", StatusBadRequest)

\* http.Error(w, "Could not get latest timestamp", http.StatusInternalServerError)
TimestampError ==
  HttpError("Could not get latest timestamp", StatusInternalServerError)

\* Lines 319-325: the newest timestamp, or 500 when there is none.
tileHandler_timestamp(p) ==
  /\ pc[p] = "tileHandler_timestamp"
  /\ LET ret == loc[p].ret
     IN  IF ret.err # NoError \/ Len(ret.timestamps) = 0
           THEN /\ resp' = [resp EXCEPT ![p] = TimestampError]
                /\ pc' = [pc EXCEPT ![p] = "done"]
                /\ UNCHANGED loc
           ELSE /\ loc' = [loc EXCEPT ![p] =
                     [@ EXCEPT !.timestamp = ret.timestamps[Len(ret.timestamps)]]]
                /\ pc' = [pc EXCEPT ![p] = "tileHandler_fetchRadar"]
                /\ UNCHANGED resp
  /\ UNCHANGED << now, cache, cacheMutex, req, calls, upstream >>

\* The two layers requested at once: the alerts request goes out with the
\* radar request, before the radar fetch has returned.
tileHandler_fetchRadar_Parallel(p) ==
  /\ pc[p] = "tileHandler_fetchRadar"
  /\ LET l         == loc[p]
         radarInfo == LookupLayer(l.area).info
         bbox      == tileToBoundingBox(l.x, l.y, l.zoom)
         radar     == GetMapRequest(radarInfo, bbox, l.timestamp)
         alerts    == GetMapRequest(hazardsLayer, bbox, l.timestamp)
     IN  /\ loc' = [loc EXCEPT ![p] = [@ EXCEPT !.bbox = bbox]]
         /\ calls' = [calls EXCEPT ![p] =
              IF l.showAlerts THEN @ \o << alerts, radar >> ELSE Append(@, radar)]
         /\ pc' = [pc EXCEPT ![p] = "tileHandler_radar"]
  /\ UNCHANGED << now, cache, cacheMutex, req, resp, upstream >>

\* Lines 327-330: radarInfo, _ := radarLayers[area]; the bounding box; the
\* GetMap request of the radar layer.
tileHandler_fetchRadar(p) ==
  /\ pc[p] = "tileHandler_fetchRadar"
  /\ LET l         == loc[p]
         radarInfo == LookupLayer(l.area).info
         bbox      == tileToBoundingBox(l.x, l.y, l.zoom)
     IN  /\ loc' = [loc EXCEPT ![p] = [@ EXCEPT !.bbox = bbox]]
         /\ IF Sendable(radarInfo)
              THEN /\ calls' = [calls EXCEPT ![p] =
                        Append(@, GetMapRequest(radarInfo, bbox, l.timestamp))]
                   /\ pc' = [pc EXCEPT ![p] = "tileHandler_radar"]
                   /\ UNCHANGED resp
              ELSE /\ resp' = [resp EXCEPT ![p] =
                        HttpError(ErrUnsupportedScheme.msg, StatusInternalServerError)]
                   /\ pc' = [pc EXCEPT ![p] = "done"]
                   /\ UNCHANGED calls
  /\ UNCHANGED << now, cache, cacheMutex, req, upstream >>

\* Lines 330-347 when the radar fetch returns: 500 on an error; else the
\* alerts request when alerts are asked for, or the radar image as PNG.
tileHandler_radar(p) ==
  /\ pc[p] = "tileHandler_radar"
  /\ \E r \in TileResponses :
       LET res == fetchWmsTile(r)
       IN  IF res.err # NoError
             THEN /\ calls' = [calls EXCEPT ![p] = Answered(@, r)]
                  /\ resp' = [resp EXCEPT ![p] =
                       HttpError(res.err.msg, StatusInternalServerError)]
                  /\ pc' = [pc EXCEPT ![p] = "done"]
                  /\ UNCHANGED loc
           ELSE IF loc[p].showAlerts
             THEN /\ calls' = [calls EXCEPT ![p] =
                       Append(Answered(@, r),
                              GetMapRequest(hazardsLayer, loc[p].bbox, loc[p].timestamp))]
                  /\ loc' = [loc EXCEPT ![p] = [@ EXCEPT !.radarImg = res.img]]
                  /\ pc' = [pc EXCEPT ![p] = "tileHandler_alerts"]
                  /\ UNCHANGED resp
           ELSE /\ calls' = [calls EXCEPT ![p] = Answered(@, r)]
                /\ loc' = [loc EXCEPT ![p] = [@ EXCEPT !.radarImg = res.img]]
                /\ resp' = [resp EXCEPT ![p] = PngResponse(res.img)]
                /\ pc' = [pc EXCEPT ![p] = "done"]
  /\ UNCHANGED << now, cache, cacheMutex, req, upstream >>

\* The composite made whether or not the alerts fetch succeeded.
WithAlerts_Always(radarImg, res) == Composite(radarImg, res.img)

\* Lines 338-343: if err == nil { composite ...; radarImg = composite }
WithAlerts(radarImg, res) ==
  IF res.err = NoError THEN Composite(radarImg, res.img) ELSE radarImg

\* Lines 337-347 when the alerts fetch returns: the composite when it
\* succeeded, the radar image as it is when it failed; then the PNG.
tileHandler_alerts(p) ==
  /\ pc[p] = "tileHandler_alerts"
  /\ \E r \in TileResponses :
       LET res      == fetchWmsTile(r)
           radarImg == WithAlerts(loc[p].radarImg, res)
       IN  /\ calls' = [calls EXCEPT ![p] = Answered(@, r)]
           /\ loc' = [loc EXCEPT ![p] = [@ EXCEPT !.radarImg = radarImg]]
           /\ resp' = [resp EXCEPT ![p] = PngResponse(radarImg)]
           /\ pc' = [pc EXCEPT ![p] = "done"]
  /\ UNCHANGED << now, cache, cacheMutex, req, upstream >>

\* ---------------------------------------------------------- framesHandler

\* Lines 290-295: the area, and the call of getTimestamps.
framesHandler(p) ==
  /\ pc[p] = "framesHandler"
  /\ loc' = [loc EXCEPT ![p] =
       [@ EXCEPT !.area = AreaOf(req[p].area), !.caller = "framesHandler"]]
  /\ pc' = [pc EXCEPT ![p] = "getTimestamps"]
  /\ UNCHANGED << now, cache, cacheMutex, req, resp, calls, upstream >>

\* Lines 296-302: 500 with the error's text, or the timestamps as JSON.
framesHandler_respond(p) ==
  /\ pc[p] = "framesHandler_respond"
  /\ LET ret == loc[p].ret
     IN  resp' = [resp EXCEPT ![p] =
           IF ret.err # NoError
             THEN HttpError(ret.err.msg, StatusInternalServerError)
             ELSE JsonResponse(ret.timestamps)]
  /\ pc' = [pc EXCEPT ![p] = "done"]
  /\ UNCHANGED << now, cache, cacheMutex, req, loc, calls, upstream >>

\* The handler has returned (or panicked): net/http ends the exchange and
\* the worker is free for the next request.
Finish(p) ==
  /\ pc[p] \in {"done", "panic"}
  /\ pc' = [pc EXCEPT ![p] = "idle"]
  /\ req' = [req EXCEPT ![p] = NoRequest]
  /\ loc' = [loc EXCEPT ![p] = ZeroLocals]
  /\ resp' = [resp EXCEPT ![p] = NoResponse]
  /\ calls' = [calls EXCEPT ![p] = << >>]
  /\ UNCHANGED << now, cache, cacheMutex, upstream >>

\* ---------------------------------------------------------- specification

\* One step of worker p.
Step(p) ==
  \/ ServeHTTP(p)
  \/ tileHandler(p)
  \/ tileHandler_timestamp(p)
  \/ tileHandler_fetchRadar(p)
  \/ tileHandler_radar(p)
  \/ tileHandler_alerts(p)
  \/ framesHandler(p)
  \/ framesHandler_respond(p)
  \/ getTimestamps_RLock(p)
  \/ getTimestamps_read(p)
  \/ getTimestamps_check(p)
  \/ getTimestamps_response(p)
  \/ getTimestamps_Lock(p)
  \/ getTimestamps_store(p)
  \/ Finish(p)

\* Requests served one after the other, by one worker.
Next == Step("w1")

Spec == Init /\ [][Next]_vars

\* ----------------------------------------------------- notions of the claims

\* strings.ToLower on the area values of AreaParams, of which "CONUS" is
\* the one with upper-case letters.
ToLower(str) == IF str = "CONUS" THEN "conus" ELSE str

\* The handler of worker p has ended, by returning or by panicking.
Served(p) == pc[p] \in {"done", "panic"}

\* Worker p serves a tile request.
TileRequest(p) == req[p].handler = "tiles"

\* The fields of a tile path.
PathParts(path) == Split(path, "/")

\* The zoom field of the path is an integer.
ZoomParses(path) ==
  Len(PathParts(path)) >= 3 /\ ~Atoi(PathParts(path)[3]).err

\* The path has the form /tiles/{z}/{x}/{y}.png: five fields, the last
\* ending in .png, and z, x, y integers.
WellFormedPath(path) ==
  LET parts == PathParts(path)
  IN  /\ Len(parts) = 5
      /\ HasSuffix(parts[5], DotPng)
      /\ ~Atoi(parts[3]).err
      /\ ~Atoi(parts[4]).err
      /\ ~Atoi(TrimSuffix(parts[5], DotPng)).err

\* The zoom levels the service accepts.
ZoomRange == 0..22

\* The upstream exchanges of worker p of one kind.
CapabilitiesCalls(p) ==
  {i \in 1..Len(calls[p]) : calls[p][i].request = "GetCapabilities"}

RadarCalls(p) ==
  {i \in 1..Len(calls[p]) :
     calls[p][i].request = "GetMap" /\ calls[p][i].layers # hazardsLayer.LayerName}

AlertsCalls(p) ==
  {i \in 1..Len(calls[p]) :
     calls[p][i].request = "GetMap" /\ calls[p][i].layers = hazardsLayer.LayerName}

\* A GetMap exchange that brought an image: status 200 and a PNG body.
ImageReceived(c) ==
  /\ c.response.kind = "http"
  /\ c.response.status = StatusOK
  /\ c.response.body.png

\* A GetMap exchange that failed: a transport error, a status other than
\* 200 or a body that is no image.
FetchFailed(c) ==
  \/ c.response.kind = "error"
  \/ /\ c.response.kind = "http"
     /\ (c.response.status # StatusOK \/ ~c.response.body.png)

\* The timestamp of the request of worker p is resolved: given in the
\* query, or the call of getTimestamps returned a sequence that is not
\* empty.
TimestampResolved(p) ==
  \/ req[p].time # EmptyStr
  \/ /\ pc[p] \notin {"tileHandler", "getTimestamps", "getTimestamps_read",
                      "getTimestamps_check", "getTimestamps_response",
                      "getTimestamps_Lock", "getTimestamps_store"}
     /\ loc[p].ret.err = NoError
     /\ Len(loc[p].ret.timestamps) > 0

\* ------------------------------------------------------------------ claims

\* C1 (as stated): a tile request whose zoom field parses to an integer
\* outside 0..22 is answered with 400 and causes no upstream request.
C1_ZoomOutOfRangeRejected ==
  \A p \in Workers :
    (/\ TileRequest(p)
     /\ ZoomParses(req[p].path)
     /\ Atoi(PathParts(req[p].path)[3]).val \notin ZoomRange)
    => /\ calls[p] = << >>
       /\ Served(p) => resp[p].status = StatusBadRequest

\* C2 (as stated): a tile request whose area is none of the five
\* configured names is answered with 400 and causes no upstream request,
\* with or without a time parameter.
C2_UnknownAreaRejected ==
  \A p \in Workers :
    (/\ TileRequest(p)
     /\ req[p].area # ""
     /\ ToLower(req[p].area) \notin DOMAIN radarLayers)
    => /\ calls[p] = << >>
       /\ Served(p) => resp[p].status = StatusBadRequest

\* C3 (as stated): a tile request whose path is not of the form
\* /tiles/{z}/{x}/{y}.png ends with 400; the handler goes on neither to
\* the area and timestamp resolution nor to an upstream call.
C3_MalformedPathRejected ==
  \A p \in Workers :
    (TileRequest(p) /\ ~WellFormedPath(req[p].path))
    => /\ pc[p] \in {"tileHandler", "done", "panic"}
       /\ calls[p] = << >>
       /\ Served(p) => resp[p].status = StatusBadRequest

\* C4: a tile request with a well-formed path, a zoom in 0..22 and a
\* known area is never answered with 400; it is answered with 200 and
\* content type image/png when its timestamp is resolved and the radar
\* layer is fetched, and with 500 otherwise.
C4_WellFormedRequestOutcome ==
  \A p \in Workers :
    (/\ TileRequest(p)
     /\ WellFormedPath(req[p].path)
     /\ Atoi(PathParts(req[p].path)[3]).val \in ZoomRange
     /\ AreaOf(req[p].area) \in DOMAIN radarLayers
     /\ pc[p] \notin {"idle", "tileHandler"})
    => /\ pc[p] # "panic"
       /\ resp[p].status # StatusBadRequest
       /\ pc[p] = "done" =>
            IF /\ TimestampResolved(p)
               /\ \E i \in RadarCalls(p) : ImageReceived(calls[p][i])
              THEN resp[p].status = StatusOK /\ resp[p].ctype = "image/png"
              ELSE resp[p].status = StatusInternalServerError

\* C4 witness: a well-formed request without time parameter answered with
\* 200, its timestamp taken from the cache call.
C4_Witness ==
  \E p \in Workers :
    /\ TileRequest(p)
    /\ WellFormedPath(req[p].path)
    /\ Atoi(PathParts(req[p].path)[3]).val = 22
    /\ req[p].time = EmptyStr
    /\ pc[p] = "done"
    /\ resp[p].status = StatusOK
    /\ resp[p].ctype = "image/png"

\* The call of getTimestamps of worker p has returned and its caller has
\* not gone on yet.
GetTimestampsReturned(p) ==
  pc[p] \in {"tileHandler_timestamp", "framesHandler_respond"}

\* The entry the returned call read was there and unexpired at the call's
\* reading of the clock (the latest reading, when the call stored nothing).
ReadUnexpired(p) == loc[p].found /\ now < loc[p].entry.Expiry

\* The entry the returned call read was there and expired at the call's
\* reading of the clock; a store reads the clock again, later.
ReadExpired(p) == loc[p].found /\ now >= loc[p].entry.Expiry

\* The returned call has replaced the entry of its area: the entry holds
\* what the call returned and expires CACHE_DURATION after the store.
EntryReplaced(p) ==
  /\ loc[p].area \in DOMAIN cache
  /\ cache[loc[p].area].Timestamps = loc[p].ret.timestamps
  /\ cache[loc[p].area].Expiry = now + CACHE_DURATION
  /\ cache[loc[p].area].Expiry > loc[p].entry.Expiry

\* C5 (as stated): of calls made one after the other, a call made while
\* the area's entry is unexpired returns the stored sequence and sends no
\* capabilities request; the first call made at or after the expiry sends
\* exactly one capabilities request and replaces the entry, the new expiry
\* 5 minutes after the store.
C5_RefreshReplacesEntry ==
  \A p \in Workers :
    GetTimestampsReturned(p) =>
      /\ ReadUnexpired(p) =>
           /\ loc[p].ret = [timestamps |-> loc[p].entry.Timestamps, err |-> NoError]
           /\ CapabilitiesCalls(p) = {}
           /\ cache[loc[p].area] = loc[p].entry
      /\ ReadExpired(p) =>
           /\ Cardinality(CapabilitiesCalls(p)) = 1
           /\ EntryReplaced(p)

\* C5 (amended): as C5, but the entry is replaced when the capabilities
\* request succeeds; when it fails the call returns the error and the
\* expired entry stays as it is.
C5_RefreshReplacesEntryOnSuccess ==
  \A p \in Workers :
    GetTimestampsReturned(p) =>
      /\ ReadUnexpired(p) =>
           /\ loc[p].ret = [timestamps |-> loc[p].entry.Timestamps, err |-> NoError]
           /\ CapabilitiesCalls(p) = {}
           /\ cache[loc[p].area] = loc[p].entry
      /\ ReadExpired(p) =>
           /\ Cardinality(CapabilitiesCalls(p)) = 1
           /\ loc[p].ret.err = NoError => EntryReplaced(p)
           /\ loc[p].ret.err # NoError => cache[loc[p].area] = loc[p].entry
      /\ (~loc[p].found /\ loc[p].ret.err = NoError) =>
           /\ Cardinality(CapabilitiesCalls(p)) = 1
           /\ cache[loc[p].area].Timestamps = loc[p].ret.timestamps
           /\ cache[loc[p].area].Expiry = now + CACHE_DURATION

\* C5 witness: a call that read an expired entry has refreshed it.
C5_Witness ==
  \E p \in Workers :
    /\ GetTimestampsReturned(p)
    /\ ReadExpired(p)
    /\ loc[p].ret.err = NoError
    /\ EntryReplaced(p)
    /\ loc[p].ret.timestamps # loc[p].entry.Timestamps

\* C6: on a miss or an expiry, the sequence getTimestamps stores and
\* returns, and /frames serves, is the last min(12, n) entries of the
\* n-entry capabilities list in their order; no cache entry holds more
\* than 12 timestamps.
C6_LastTwelveStored ==
  /\ \A a \in DOMAIN cache : Len(cache[a].Timestamps) <= 12
  /\ \A p \in Workers :
       (/\ GetTimestampsReturned(p) \/ (pc[p] = "done" /\ req[p].handler = "frames")
        /\ ~loc[p].fresh
        /\ loc[p].ret.err = NoError)
       => LET all    == loc[p].timestamps
              n      == Len(all)
              k      == IF n < 12 THEN n ELSE 12
              recent == loc[p].ret.timestamps
          IN  /\ \E i \in CapabilitiesCalls(p) :
                   /\ calls[p][i].response.kind = "http"
                   /\ calls[p][i].response.body.xml
                   /\ all = Split(Unmarshal(calls[p][i].response.body).Text, ",")
              /\ Len(recent) = k
              /\ \A i \in 1..k : recent[i] = all[n - k + i]
              /\ pc[p] # "done" => cache[loc[p].area].Timestamps = recent
              /\ pc[p] = "done" =>
                   /\ resp[p].status = StatusOK
                   /\ resp[p].body = [kind |-> "json", json |-> recent]

\* C6 witness: /frames has served the 12 newest of more than 12 upstream
\* timestamps.
C6_Witness ==
  \E p \in Workers :
    /\ pc[p] = "done"
    /\ req[p].handler = "frames"
    /\ ~loc[p].fresh
    /\ loc[p].ret.err = NoError
    /\ Len(loc[p].timestamps) > 12
    /\ Len(resp[p].body.json) = 12

\* C7: when the fetch of the radar layer fails, the tile request ends
\* with 500, no image is written and no alerts request is sent, also with
\* alerts=true.
C7_RadarFailureAborts ==
  \A p \in Workers :
    (/\ TileRequest(p)
     /\ \E i \in RadarCalls(p) : FetchFailed(calls[p][i]))
    => /\ pc[p] = "done"
       /\ resp[p].status = StatusInternalServerError
       /\ resp[p].body.kind = "text"
       /\ resp[p].ctype # "image/png"
       /\ AlertsCalls(p) = {}

\* C7 witness: a request with alerts=true whose radar fetch brought a body
\* that is no image.
C7_Witness ==
  \E p \in Workers :
    /\ TileRequest(p)
    /\ req[p].alerts = "true"
    /\ pc[p] = "done"
    /\ \E i \in RadarCalls(p) :
         /\ calls[p][i].response.kind = "http"
         /\ calls[p][i].response.status = StatusOK
         /\ ~calls[p][i].response.body.png

\* C8: with alerts=true, the radar fetch succeeded and the alerts fetch
\* failed, the request ends with 200 and the image sent is the radar
\* image as received.
C8_AlertsFailureKeepsRadar ==
  \A p \in Workers :
    (/\ TileRequest(p)
     /\ \E i \in RadarCalls(p) : ImageReceived(calls[p][i])
     /\ \E j \in AlertsCalls(p) : FetchFailed(calls[p][j]))
    => /\ pc[p] = "done"
       /\ resp[p].status = StatusOK
       /\ resp[p].ctype = "image/png"
       /\ resp[p].body.kind = "png"
       /\ \A i \in RadarCalls(p) :
            resp[p].body.png.data = calls[p][i].response.body.data

\* C8 witness: the alerts fetch of a request with alerts=true failed
\* after the radar fetch brought a partly transparent image.
C8_Witness ==
  \E p \in Workers :
    /\ TileRequest(p)
    /\ req[p].alerts = "true"
    /\ pc[p] = "done"
    /\ \E i \in RadarCalls(p) :
         /\ ImageReceived(calls[p][i])
         /\ calls[p][i].response.body.data[1].A \notin {0, 255}
    /\ \E j \in AlertsCalls(p) : FetchFailed(calls[p][j])

\* C9 (as stated): the area is resolved without regard to letter case and
\* defaults to conus: the configuration the handler uses is the one of the
\* lower-cased area name.
C9_AreaCaseInsensitive ==
  \A p \in Workers :
    (TileRequest(p) /\ pc[p] \notin {"idle", "tileHandler", "panic"})
    => LookupLayer(loc[p].area) = LookupLayer(ToLower(AreaOf(req[p].area)))

\* Two images are pixel-equal: the same bounds and the same colour at
\* every pixel.
PixelEqual(a, b) ==
  /\ Len(a.pix) = Len(b.pix)
  /\ \A i \in 1..Len(a.pix) : RGBA16(a.model, a.pix[i]) = RGBA16(b.model, b.pix[i])

\* C10 (as stated): the composite of a radar image and a fully
\* transparent alerts image of the same bounds is pixel-equal to the radar
\* image, whatever the radar pixels.
C10_TransparentOverlayKeepsRadar ==
  \A p \in Workers :
    (/\ TileRequest(p)
     /\ pc[p] = "done"
     /\ \E j \in AlertsCalls(p) :
          /\ ImageReceived(calls[p][j])
          /\ \A k \in 1..Len(calls[p][j].response.body.data) :
               calls[p][j].response.body.data[k].A = 0)
    => \A i \in RadarCalls(p) :
         PixelEqual(loc[p].radarImg, Decode(calls[p][i].response.body).img)

\* ------------------------------------------------- the tiles of the pyramid

\* The decimal digits, in order.
DigitChar == << "0", "1", "2", "3", "4", "5", "6", "7", "8", "9" >>

\* The decimal text of n >= 0, as a client writes a tile coordinate into
\* the path.
RECURSIVE Itoa(_)
Itoa(n) ==
  IF n < 10 THEN << DigitChar[n + 1] >>
  ELSE Itoa(n \div 10) \o << DigitChar[(n % 10) + 1] >>

\* The path /tiles/{z}/{x}/{y}.png of the tile (x, y) at a zoom.
TilePath(zoom, x, y) ==
  << "/", "t", "i", "l", "e", "s", "/" >> \o Itoa(zoom) \o << "/" >>
    \o Itoa(x) \o << "/" >> \o Itoa(y) \o DotPng

\* The columns and rows looked at on a zoom level: the first, the middle
\* and the last of the 2^zoom.
TileEdges(zoom) == {0, Pow2(zoom) \div 2, Pow2(zoom) - 1}

\* The requests for those tiles on every zoom level of the range, with a
\* time given, so that the handler goes straight to the bounding box.
PyramidRequests ==
  UNION {{[handler |-> "tiles", path |-> TilePath(z, x, y), area |-> "",
           alerts |-> "", time |-> << "z" >>] :
            x \in TileEdges(z), y \in TileEdges(z)} : z \in ZoomRange}

\* A request for a tile of the pyramid reaches a free worker.
ServeHTTP_pyramid(p) ==
  /\ pc[p] = "idle"
  /\ \E r \in PyramidRequests :
       /\ req' = [req EXCEPT ![p] = r]
       /\ pc' = [pc EXCEPT ![p] = "tileHandler"]
  /\ UNCHANGED << now, cache, cacheMutex, loc, resp, calls, upstream >>

\* The tiles of the pyramid requested one after the other: the handler
\* computes the bounding box of each and fetches the radar layer.
PyramidNext ==
  \/ ServeHTTP_pyramid("w1")
  \/ tileHandler("w1")
  \/ tileHandler_fetchRadar("w1")
  \/ tileHandler_radar("w1")
  \/ Finish("w1")

PyramidSpec == Init /\ [][PyramidNext]_vars

\* The tile of the request of worker p lies in the pyramid: its zoom in
\* 0..22, its column and row in 0..2^zoom-1.
ValidTile(p) ==
  /\ loc[p].zoom \in ZoomRange
  /\ loc[p].x \in 0..(Pow2(loc[p].zoom) - 1)
  /\ loc[p].y \in 0..(Pow2(loc[p].zoom) - 1)

\* The handler of worker p has computed the bounding box.
BoxComputed(p) == pc[p] \in {"tileHandler_radar", "tileHandler_alerts", "done"}

\* C11: for a zoom in 0..22 and x, y in 0..2^zoom-1 the box that
\* tileToBoundingBox returns has minX < maxX and minY < maxY, and its
\* width and its height are the world extent divided by 2^zoom (in whole
\* metres); the box is the one sent upstream.
C11_BoundingBoxExtent ==
  \A p \in Workers :
    (TileRequest(p) /\ BoxComputed(p) /\ ValidTile(p))
    => LET bbox == loc[p].bbox
           minX == bbox[1]
           minY == bbox[2]
           maxX == bbox[3]
           maxY == bbox[4]
       IN  /\ bbox = tileToBoundingBox(loc[p].x, loc[p].y, loc[p].zoom)
           /\ minX < maxX
           /\ minY < maxY
           /\ maxX - minX = WorldExtent \div Pow2(loc[p].zoom)
           /\ maxY - minY = WorldExtent \div Pow2(loc[p].zoom)
           /\ \A i \in RadarCalls(p) : calls[p][i].bbox = bbox

\* C11 witness: the box of the last tile of zoom 22 has been computed and
\* sent.
C11_Witness ==
  \E p \in Workers :
    /\ TileRequest(p)
    /\ BoxComputed(p)
    /\ loc[p].zoom = 22
    /\ loc[p].x = Pow2(22) - 1
    /\ loc[p].y = Pow2(22) - 1
    /\ RadarCalls(p) # {}
    /\ loc[p].bbox[3] - loc[p].bbox[1] = 9

\* ------------------------------------------------ claims on the timestamps

\* The steps of getTimestamps.
GetTimestampsSteps ==
  {"getTimestamps", "getTimestamps_read", "getTimestamps_check",
   "getTimestamps_response", "getTimestamps_Lock", "getTimestamps_store"}

\* The request of worker p has called getTimestamps and the call has
\* returned.
GetTimestampsDone(p) ==
  /\ loc[p].caller # ""
  /\ (TileRequest(p) => req[p].time = EmptyStr)
  /\ pc[p] \notin {"idle", "tileHandler", "framesHandler", "panic"} \cup GetTimestampsSteps

\* The GetMap exchanges of worker p, of both layers.
GetMapCalls(p) == RadarCalls(p) \cup AlertsCalls(p)

\* A capabilities exchange that brought a document without timestamps: it
\* parses, and its dimension text is absent or empty.
NoTimestamps(c) ==
  /\ c.response.kind = "http"
  /\ ~Unmarshal(c.response.body).err
  /\ Unmarshal(c.response.body).Text = EmptyStr

\* C12 (as stated): for a tile request without time parameter, the
\* timestamp of the radar request and of the alerts request is the last
\* element of what getTimestamps returned; when getTimestamps fails or the
\* capabilities document carries no timestamps the request ends with 500
\* and sends no GetMap request.
C12_LatestTimestampOrError ==
  \A p \in Workers :
    (TileRequest(p) /\ GetTimestampsDone(p))
    => LET ret == loc[p].ret
       IN  /\ \A i \in GetMapCalls(p) :
                /\ ret.err = NoError
                /\ Len(ret.timestamps) > 0
                /\ calls[p][i].time = ret.timestamps[Len(ret.timestamps)]
           /\ (\/ ret.err # NoError
               \/ \E i \in CapabilitiesCalls(p) : NoTimestamps(calls[p][i]))
              => /\ GetMapCalls(p) = {}
                 /\ Served(p) => resp[p].status = StatusInternalServerError

\* A capabilities exchange without the expected document: a transport
\* error, an error status, a body that is no XML, or a document without the
\* Dimension element at Capability/Layer/Layer.
ShapeAbsent(c) ==
  \/ c.response.kind = "error"
  \/ /\ c.response.kind = "http"
     /\ \/ c.response.status # StatusOK
        \/ ~c.response.body.xml
        \/ c.response.body.dimension = << >>

\* The entry of the area of worker p's call is as the call read it.
EntryAsRead(p) ==
  /\ loc[p].area \in DOMAIN cache <=> loc[p].found
  /\ loc[p].found => cache[loc[p].area] = loc[p].entry

\* C13 (as stated): when the capabilities answer lacks the nested
\* dimension field or is an error response, getTimestamps returns an error
\* and stores no cache entry for the area.
C13_AbsentDimensionIsError ==
  \A p \in Workers :
    (/\ GetTimestampsReturned(p)
     /\ \E i \in CapabilitiesCalls(p) : ShapeAbsent(calls[p][i]))
    => /\ loc[p].ret.err # NoError
       /\ EntryAsRead(p)

\* -------------------------------------------- claims on the order of events

\* Some upstream request of worker p is not answered yet.
CallPending(p) == \E i \in 1..Len(calls[p]) : calls[p][i].response = Pending

\* C14: within a tile request the alerts request is sent only when alerts
\* parses as true and only after the radar fetch has brought its image;
\* nothing is written while a fetch is out; and the image written is the
\* encoding of the composite of the two images fetched, so that the
\* composite is made after the alerts fetch and before the response.
C14_RequestOrder ==
  \A p \in Workers :
    TileRequest(p) =>
      /\ \A j \in AlertsCalls(p) :
           /\ ParseBool(req[p].alerts) = [val |-> TRUE, err |-> FALSE]
           /\ \E i \in RadarCalls(p) : i < j /\ ImageReceived(calls[p][i])
           /\ \A i \in RadarCalls(p) : i < j
      /\ CallPending(p) => resp[p] = NoResponse /\ ~Served(p)
      /\ resp[p] # NoResponse => pc[p] = "done"
      /\ \A i \in RadarCalls(p), j \in AlertsCalls(p) :
           (pc[p] = "done" /\ ImageReceived(calls[p][j]))
           => /\ loc[p].radarImg =
                   Composite(Decode(calls[p][i].response.body).img,
                             Decode(calls[p][j].response.body).img)
              /\ resp[p] = PngResponse(loc[p].radarImg)

\* C14 witness: a request with alerts=true has written the composite of a
\* partly transparent radar image and an opaque alerts image.
C14_Witness ==
  \E p \in Workers :
    /\ TileRequest(p)
    /\ pc[p] = "done"
    /\ resp[p].status = StatusOK
    /\ \E i \in RadarCalls(p), j \in AlertsCalls(p) :
         /\ i < j
         /\ ImageReceived(calls[p][i])
         /\ ImageReceived(calls[p][j])
         /\ calls[p][i].response.body.data[1].A = 100
         /\ calls[p][j].response.body.data[1].A = 255
         /\ resp[p].body.png.data # calls[p][i].response.body.data

\* A capabilities exchange that failed: client.Get returned an error, or
\* the body did not unmarshal.
CapabilitiesFailed(c) ==
  \/ c.response.kind = "error"
  \/ c.response.kind = "http" /\ Unmarshal(c.response.body).err

\* C15: no upstream call is retried. A tile request sends at most one
\* GetCapabilities, one radar GetMap and one alerts GetMap request, a
\* /frames request at most one GetCapabilities request and nothing else;
\* a failed capabilities or radar exchange is the last of its request,
\* which ends with 500.
C15_NoRetry ==
  \A p \in Workers :
    /\ Cardinality(CapabilitiesCalls(p)) <= 1
    /\ Cardinality(RadarCalls(p)) <= 1
    /\ Cardinality(AlertsCalls(p)) <= 1
    /\ req[p].handler = "frames" => GetMapCalls(p) = {}
    /\ \A i \in CapabilitiesCalls(p) \cup RadarCalls(p) :
         (\/ i \in CapabilitiesCalls(p) /\ CapabilitiesFailed(calls[p][i])
          \/ i \in RadarCalls(p) /\ FetchFailed(calls[p][i]))
         => /\ i = Len(calls[p])
            /\ pc[p] \in {"tileHandler_timestamp", "framesHandler_respond", "done"}
            /\ pc[p] = "done" => resp[p].status = StatusInternalServerError

\* C15 witness: a tile request with alerts=true has ended after a failed
\* capabilities exchange, its only upstream request.
C15_Witness ==
  \E p \in Workers :
    /\ TileRequest(p)
    /\ req[p].alerts = "true"
    /\ pc[p] = "done"
    /\ Len(calls[p]) = 1
    /\ CapabilitiesFailed(calls[p][1])
    /\ resp[p].status = StatusInternalServerError

\* ------------------------------------------------------ concurrent requests

\* The /frames requests of the concurrent clients: the areas of the tile
\* requests and one more of the configured ones.
ConcurrentRequests ==
  [handler : {"frames"}, path : {EmptyStr},
   area : AreaParams \cup {"guam"}, alerts : {""}, time : {EmptyStr}]

\* A /frames request reaches a free worker.
ServeHTTP_frames(p) ==
  /\ pc[p] = "idle"
  /\ \E r \in ConcurrentRequests :
       /\ req' = [req EXCEPT ![p] = r]
       /\ pc' = [pc EXCEPT ![p] = "framesHandler"]
  /\ UNCHANGED << now, cache, cacheMutex, loc, resp, calls, upstream >>

\* One step of worker p serving a /frames request.
FramesStep(p) ==
  \/ ServeHTTP_frames(p)
  \/ framesHandler(p)
  \/ framesHandler_respond(p)
  \/ getTimestamps_RLock(p)
  \/ getTimestamps_read(p)
  \/ getTimestamps_check(p)
  \/ getTimestamps_response(p)
  \/ getTimestamps_Lock(p)
  \/ getTimestamps_store(p)

\* net/http serves every request in a goroutine of its own: two requests
\* that arrive at the freshly started server, their steps interleaved in
\* any order.
ConcurrentNext == \E p \in Workers : FramesStep(p)

ConcurrentSpec == Init /\ [][ConcurrentNext]_vars

\* Worker p is between RLock and RUnlock: it reads the map.
Reading(p) == pc[p] = "getTimestamps_read"

\* Worker p is between Lock and Unlock: it writes the map.
Writing(p) == pc[p] = "getTimestamps_store"

\* The capabilities request of worker p is in flight.
InFlight(p) == pc[p] = "getTimestamps_response"

\* C16: under every interleaving of getTimestamps calls, a write of the
\* cache map overlaps neither another write nor a read; a lock is held
\* exactly between its acquisition and its release in the same call, so
\* that a call that has left the section has released it; no lock is held
\* while the capabilities request is in flight.
C16_LockDiscipline ==
  /\ \A p, q \in Workers :
       (p # q /\ Writing(p)) => (~Writing(q) /\ ~Reading(q))
  /\ \A p \in Workers :
       /\ p \in cacheMutex.readers <=> Reading(p)
       /\ cacheMutex.writer = p <=> Writing(p)
       /\ InFlight(p) => (p \notin cacheMutex.readers /\ cacheMutex.writer # p)
  /\ cacheMutex.writer # NoWorker => cacheMutex.readers = {}

\* C16 witness: two reads of the map overlap, while the capabilities
\* request of neither has been sent.
C16_Witness ==
  \E p, q \in Workers :
    /\ p # q
    /\ Reading(p)
    /\ Reading(q)
    /\ cacheMutex.readers = {p, q}
    /\ loc[p].area = loc[q].area

\* The call of getTimestamps of worker p has found no fresh entry for a
\* configured area and has gone past the test of the entry.
Missed(p) ==
  /\ loc[p].caller # ""
  /\ (TileRequest(p) => req[p].time = EmptyStr)
  /\ pc[p] \notin {"idle", "tileHandler", "framesHandler", "panic", "getTimestamps",
                   "getTimestamps_read", "getTimestamps_check"}
  /\ ~loc[p].fresh
  /\ LookupLayer(loc[p].area).ok

\* The call of getTimestamps of worker p has written the entry of its
\* area and returned.
Refreshed(p) ==
  /\ Missed(p)
  /\ GetTimestampsDone(p)
  /\ loc[p].ret.err = NoError

\* C17: misses are not folded together. Every call that finds the entry
\* of a configured area missing or expired sends a capabilities request of
\* its own, whatever the other calls under way, and writes the entry when
\* the request succeeds.
C17_EveryMissFetches ==
  \A p \in Workers :
    Missed(p) =>
      /\ Cardinality(CapabilitiesCalls(p)) = 1
      /\ Refreshed(p) =>
           /\ ~CapabilitiesFailed(calls[p][1])
           /\ loc[p].area \in DOMAIN cache
           /\ \E q \in Workers :
                /\ Refreshed(q)
                /\ loc[q].area = loc[p].area
                /\ cache[loc[p].area].Timestamps = loc[q].ret.timestamps

\* C17 witness: two calls for one area have both found the entry missing,
\* both sent a capabilities request and both written the entry.
C17_Witness ==
  \E p, q \in Workers :
    /\ p # q
    /\ loc[p].area = loc[q].area
    /\ Refreshed(p)
    /\ Refreshed(q)
    /\ ~loc[p].found
    /\ ~loc[q].found
    /\ Cardinality(CapabilitiesCalls(p)) = 1
    /\ Cardinality(CapabilitiesCalls(q)) = 1
    /\ loc[p].ret.timestamps # loc[q].ret.timestamps

\* ------------------------------------------------- claims on the cache store

\* The call of getTimestamps of worker p has returned an error.
ReturnedError(p) == GetTimestampsReturned(p) /\ loc[p].ret.err # NoError

\* C18: a step changes the cache store only when it is the store of a
\* call that returns without error; a call that has returned an error
\* (unknown area, transport failure, XML that does not unmarshal) finds
\* the entry of its area as it read it, not created, replaced, removed or
\* extended, and has returned no timestamps, so not those of an expired
\* entry.
C18_ErrorLeavesCacheUnchanged ==
  /\ [][cache' # cache =>
          \E p \in Workers :
            /\ pc[p] = "getTimestamps_store"
            /\ GetTimestampsReturned(p)'
            /\ loc'[p].ret.err = NoError]_vars
  /\ [](\A p \in Workers :
          ReturnedError(p) =>
            /\ EntryAsRead(p)
            /\ loc[p].ret.timestamps = << >>
            /\ loc[p].ret.err \in {ErrInvalidArea, ErrTransport, ErrXML})

\* C18 witness: a call that read an expired entry has returned a
\* transport error, and the entry is as it was.
C18_Witness ==
  \E p \in Workers :
    /\ ReturnedError(p)
    /\ loc[p].ret.err = ErrTransport
    /\ ReadExpired(p)
    /\ EntryAsRead(p)
    /\ Len(loc[p].entry.Timestamps) = FRAME_COUNT

\* The five configured area names.
AreaNames == {"conus", "alaska", "hawaii", "carib", "guam"}

\* C19: in every reachable state the keys of the cache are among the five
\* configured area names, whatever areas the clients ask for, so that the
\* cache holds at most five entries.
C19_CacheKeysConfigured ==
  /\ DOMAIN radarLayers = AreaNames
  /\ DOMAIN cache \subseteq AreaNames
  /\ Cardinality(DOMAIN cache) <= 5
  /\ \A p \in Workers :
       (GetTimestampsDone(p) /\ loc[p].area \notin AreaNames)
       => /\ loc[p].ret.err = ErrInvalidArea
          /\ calls[p] = << >>

\* C19 witness: a tile request for an area that is not configured has been
\* turned away while the cache holds an entry, and the cache holds no key
\* but the configured one.
C19_Witness ==
  /\ DOMAIN cache = {"conus"}
  /\ \E p \in Workers :
       /\ TileRequest(p)
       /\ GetTimestampsDone(p)
       /\ req[p].area = "mars"
       /\ loc[p].ret.err = ErrInvalidArea

\* The place of a timestamp among the frame names.
FrameIndex(name) == CHOOSE i \in 1..Len(FrameNames) : FrameNames[i] = name

\* The call of worker p has stored the timestamps of a capabilities
\* document that carries some.
StoredDocument(p) ==
  /\ Refreshed(p)
  /\ Unmarshal(calls[p][1].response.body).Text # EmptyStr

\* Where the window of the document that worker p received starts. The
\* upstream window never moves back, so that of two documents the one
\* whose window starts later was sent later.
DocumentStart(p) == FrameIndex(Unmarshal(calls[p][1].response.body).Text[1])

\* C20 (as stated): when two refreshes of one area overlap, the entry left
\* after both have stored is the one taken from the later of the two
\* capabilities documents.
C20_LatestResponseKept ==
  \A p, q \in Workers :
    (/\ p # q
     /\ loc[p].area = loc[q].area
     /\ StoredDocument(p)
     /\ StoredDocument(q)
     /\ DocumentStart(p) < DocumentStart(q))
    => cache[loc[q].area].Timestamps = loc[q].ret.timestamps

====
